---- MODULE Spec2Model ----
(***************************************************************************)
(* Model of the stock-ticker quote endpoint: the in-memory Cache with TTL, *)
(* the rate-limit flag, and the GET handlers built on them.                *)
(*                                                                         *)
(* Time is Date.now() in milliseconds since the epoch.  A synchronous      *)
(* stretch of a handler (code between two awaits) is one step taken at one *)
(* instant; time advances only between steps.                              *)
(***************************************************************************)
EXTENDS Integers, Sequences, FiniteSets, Bags, TLC

(* ---------------------------------------------------------------------- *)
(* Bounds of the model                                                    *)
(* ---------------------------------------------------------------------- *)
MaxConcurrent == 2
MaxTicks == 2
MaxPolls == 3

(* ---------------------------------------------------------------------- *)
(* Program constants                                                      *)
(* ---------------------------------------------------------------------- *)
CACHE_TTL == 300
KV_CACHE_TTL == 3600
PLAIN_CACHE_TTL == 12
DayMs == 86400000
NoDeadline == 0
STOCK_SYMBOL == "AAPL"
CACHE_KEY == "aapl"

null == [isNull |-> TRUE]
undefined == "undefined"

Keys == {CACHE_KEY, "ufpi"}

VARIABLES
  now,            \* Date.now()
  ticks,          \* number of clock advances so far
  variant,        \* which GET handler is deployed
  apiKey,         \* process.env.ALPHA_VANTAGE_API_KEY is set
  cache,          \* Cache.cache : key -> {value, expiresAt} or null
  rateLimitUntil, \* Cache.rateLimitUntil (NoDeadline stands for null)
  req,            \* the bag of requests: position and locals of those in
                  \* flight, and the response of the one that just ended
  lastStored,     \* key -> the last set not overwritten or cleared since:
                  \* its value, time and ttl, and whether a get was made on
                  \* the key after its expiry
  last,           \* the last direct call of a Cache method and its result
  kv,             \* cache.kv: whether a KV namespace is bound, and the
                  \* deadline under its key '__rate_limit_until__'
  admin,          \* the request to the admin endpoint: its position and
                  \* response, and what followed it
  echo,           \* one upstream reply handled under two credentials, and
                  \* the two response bodies
  ui              \* the page of the polling client: its two elements, the
                  \* polls in flight and the last poll completed

vars == <<now, ticks, variant, apiKey, cache, rateLimitUntil, req,
          lastStored, last, kv, admin, echo, ui>>

(* ---------------------------------------------------------------------- *)
(* Cache (lib/cache.js and the inline class of route.js)                  *)
(* ---------------------------------------------------------------------- *)
EmptyCache == [k \in Keys |-> null]

\* set that takes the ttl as milliseconds
set_ttlAsMillis(c, key, value, ttlSeconds, t) ==
  [c EXCEPT ![key] = [value |-> value, expiresAt |-> t + ttlSeconds]]

\* set that puts the new value into the entry already there, keeping its
\* expiresAt
set_keepsExpiry(c, key, value, ttlSeconds, t) ==
  [c EXCEPT ![key] = [value |-> value,
                      expiresAt |-> IF c[key] # null THEN c[key].expiresAt
                                    ELSE t + (ttlSeconds * 1000)]]

set(c, key, value, ttlSeconds, t) ==
  [c EXCEPT ![key] = [value |-> value, expiresAt |-> t + (ttlSeconds * 1000)]]

\* get with the expiry test the wrong way round
get_invertedExpiry(c, key, t) ==
  LET item == c[key] IN
  IF item = null THEN [ret |-> null, cache |-> c]
  ELSE IF t < item.expiresAt
       THEN [ret |-> null, cache |-> [c EXCEPT ![key] = null]]
       ELSE [ret |-> item.value, cache |-> c]

\* get that treats the instant of expiry as expired
get_expiredAtBoundary(c, key, t) ==
  LET item == c[key] IN
  IF item = null THEN [ret |-> null, cache |-> c]
  ELSE IF t >= item.expiresAt
       THEN [ret |-> null, cache |-> [c EXCEPT ![key] = null]]
       ELSE [ret |-> item.value, cache |-> c]

\* get that empties the whole Map when it finds an expired entry
get_clearsAll(c, key, t) ==
  LET item == c[key] IN
  IF item = null THEN [ret |-> null, cache |-> c]
  ELSE IF t > item.expiresAt
       THEN [ret |-> null, cache |-> EmptyCache]
       ELSE [ret |-> item.value, cache |-> c]

get(c, key, t) ==
  LET item == c[key] IN
  IF item = null THEN [ret |-> null, cache |-> c]
  ELSE IF t > item.expiresAt
       THEN [ret |-> null, cache |-> [c EXCEPT ![key] = null]]
       ELSE [ret |-> item.value, cache |-> c]

\* getStale that honours the expiry
getStale_checksExpiry(c, key) ==
  LET item == c[key] IN
  IF item = null \/ now > item.expiresAt THEN null ELSE item.value

getStale(c, key) ==
  LET item == c[key] IN
  IF item = null THEN null ELSE item.value

clear(c) == EmptyCache

\* the midnight at or after t: t itself when t is a midnight
NextUtcMidnight_ceil(t) == ((t + DayMs - 1) \div DayMs) * DayMs

NextUtcMidnight(t) == ((t \div DayMs) + 1) * DayMs

\* setRateLimited without the `+ 1`: midnight of the current day
setRateLimited_today(t) == (t \div DayMs) * DayMs

setRateLimited(t) == NextUtcMidnight(t)

\* a one-minute backoff for the per-minute Note
NoteDeadline_oneMinute(t) == t + 60000

\* The deadline the Note branch of the inline-Cache GET records.
NoteDeadline(t) == setRateLimited(t)

\* isRateLimited without the test of the clock: limited for as long as a
\* deadline is recorded
isRateLimited_sticky(until, t) ==
  IF until = NoDeadline THEN [ret |-> FALSE, until |-> until]
  ELSE [ret |-> TRUE, until |-> until]

\* isRateLimited that leaves a passed deadline recorded
isRateLimited_noClear(until, t) ==
  IF until = NoDeadline THEN [ret |-> FALSE, until |-> until]
  ELSE IF t > until THEN [ret |-> FALSE, until |-> until]
  ELSE [ret |-> TRUE, until |-> until]

\* isRateLimited that compares the wrong way round
isRateLimited_inverted(until, t) ==
  IF until = NoDeadline THEN [ret |-> FALSE, until |-> until]
  ELSE IF t < until THEN [ret |-> FALSE, until |-> until]
  ELSE [ret |-> TRUE, until |-> until]

isRateLimited(until, t) ==
  IF until = NoDeadline THEN [ret |-> FALSE, until |-> until]
  ELSE IF t > until THEN [ret |-> FALSE, until |-> NoDeadline]
  ELSE [ret |-> TRUE, until |-> until]

getRateLimitUntil(until) == until

(* ---------------------------------------------------------------------- *)
(* The cache object of the KV-backed handler.  Its module is not part of  *)
(* the sources at hand; its methods follow sections 4.1 and 4.2 of the    *)
(* design: a Store with lazy eviction and a limiter that records the      *)
(* deadline it is given.  Each awaited call takes effect at the instant   *)
(* it is made.                                                            *)
(* ---------------------------------------------------------------------- *)
KV_set(c, key, value, ttlSeconds, t) ==
  [c EXCEPT ![key] = [value |-> value, expiresAt |-> t + (ttlSeconds * 1000)]]

\* get that reports an expired entry absent and leaves it in the store
KV_get_keepsExpired(c, key, t) ==
  LET item == c[key] IN
  IF item = null THEN [ret |-> null, cache |-> c]
  ELSE IF t > item.expiresAt
       THEN [ret |-> null, cache |-> c]
       ELSE [ret |-> item.value, cache |-> c]

KV_get(c, key, t) ==
  LET item == c[key] IN
  IF item = null THEN [ret |-> null, cache |-> c]
  ELSE IF t > item.expiresAt
       THEN [ret |-> null, cache |-> [c EXCEPT ![key] = null]]
       ELSE [ret |-> item.value, cache |-> c]

KV_getStale(c, key) ==
  LET item == c[key] IN
  IF item = null THEN null ELSE item.value

KV_setRateLimited(expiry) == expiry

KV_isRateLimited(until, t) ==
  IF until = NoDeadline THEN [ret |-> FALSE, until |-> until]
  ELSE IF t > until THEN [ret |-> FALSE, until |-> NoDeadline]
  ELSE [ret |-> TRUE, until |-> until]

\* What the Store was last told to hold for a key.
Written(value, t, ttlSeconds) ==
  [value |-> value, at |-> t, ttl |-> ttlSeconds, gotExpired |-> FALSE]

ExpiryOf(w) == w.at + (w.ttl * 1000)

\* Records in lastStored that get(key) was called at time t.
NoteGet(ls, key, t) ==
  IF ls[key] # null /\ t > ExpiryOf(ls[key])
  THEN [ls EXCEPT ![key] = [@ EXCEPT !.gotExpired = TRUE]]
  ELSE ls

WithinTtl(w, t) == w # null /\ t < ExpiryOf(w)

NoCall == [op |-> "none", key |-> CACHE_KEY, ret |-> null, at |-> 0]

(* ---------------------------------------------------------------------- *)
(* Upstream replies and their conversion                                  *)
(* ---------------------------------------------------------------------- *)
NaN == [nan |-> TRUE, inf |-> FALSE, v |-> 0]
Num(n) == [nan |-> FALSE, inf |-> FALSE, v |-> n]
Infinity == [nan |-> FALSE, inf |-> TRUE, v |-> 0]

\* parseFloat on the strings the model's upstream sends; the number is kept
\* in ten-thousandths.
parseFloat(s) ==
  CASE s = "123.4500" -> Num(1234500)
    [] s = "123.4567" -> Num(1234567)
    [] s = "1.2300"   -> Num(12300)
    [] s = "-0.5000"  -> Num(-5000)
    [] s = "Infinity" -> Infinity
    [] OTHER          -> NaN

isNaN(n) == n.nan

Pad2(n) == IF n < 10 THEN "0" \o ToString(n) ELSE ToString(n)

\* Number.prototype.toFixed(2)
toFixed2(n) ==
  IF n.nan THEN "NaN"
  ELSE IF n.inf THEN "Infinity"
  ELSE LET a == IF n.v < 0 THEN 0 - n.v ELSE n.v
           cents == (a + 50) \div 100
           sign == IF n.v < 0 /\ cents > 0 THEN "-" ELSE ""
       IN sign \o ToString(cents \div 100) \o "." \o Pad2(cents % 100)

toISOString(t) == <<"ISO", t>>

EmptyQuote ==
  [symbol |-> undefined, price |-> undefined, change |-> undefined,
   changePercent |-> undefined, lastTradingDay |-> undefined]

FullQuote ==
  [symbol |-> STOCK_SYMBOL, price |-> "123.4567", change |-> "1.2300",
   changePercent |-> "1.01%", lastTradingDay |-> "2024-01-02"]

\* The data['Global Quote'] objects the model's upstream sends.
QuoteObjects ==
  { FullQuote,
    [EmptyQuote EXCEPT !.symbol = STOCK_SYMBOL, !.price = "123.4500"],
    [FullQuote EXCEPT !.symbol = undefined],
    [FullQuote EXCEPT !.symbol = ""],
    [FullQuote EXCEPT !.price = undefined],
    [FullQuote EXCEPT !.price = "abc"],
    EmptyQuote }

\* Object.keys(data['Global Quote']).length === 0
HasNoKeys(q) == q = EmptyQuote

\* The reply of fetch(apiUrl): the transport result and the parsed body.  A
\* body with an error message, a Note or an Information carries no quote or
\* the full one; a body without them carries no quote or any quote object.
BodyReplies ==
  [transport : {"ok"}, errorMessage : BOOLEAN, note : BOOLEAN, information : BOOLEAN,
   hasQuote : BOOLEAN, quote : QuoteObjects]

FailedReplies ==
  [transport : {"throws", "notOk", "badJson"}, errorMessage : {FALSE}, note : {FALSE},
   information : {FALSE}, hasQuote : {FALSE}, quote : {EmptyQuote}]

Replies ==
  {x \in BodyReplies :
     /\ (~x.hasQuote) => x.quote = EmptyQuote
     /\ (x.errorMessage \/ x.note \/ x.information) => x.quote \in {EmptyQuote, FullQuote}
     /\ (x.hasQuote /\ x.quote = EmptyQuote) => ~(x.errorMessage \/ x.note \/ x.information)}
  \cup FailedReplies

NoReply ==
  [transport |-> "none", errorMessage |-> FALSE, note |-> FALSE,
   information |-> FALSE, hasQuote |-> FALSE, quote |-> EmptyQuote]

\* `throw` reaches the catch block: fetch rejected, !response.ok, or
\* response.json() rejected.
Throws(reply) == reply.transport # "ok"

MissingQuote(reply) == (~reply.hasQuote) \/ HasNoKeys(reply.quote)

\* validation without the isNaN(price) test
InvalidQuote_symbolOnly(reply) ==
  \/ reply.quote.symbol = undefined
  \/ reply.quote.symbol = ""

InvalidQuote(reply) ==
  \/ reply.quote.symbol = undefined
  \/ reply.quote.symbol = ""
  \/ isNaN(parseFloat(reply.quote.price))

\* The if-chain of the KV-backed GET after `await response.json()`.
KVOutcome(reply) ==
  IF Throws(reply) THEN "catch"
  ELSE IF reply.errorMessage THEN "error"
  ELSE IF reply.note \/ reply.information THEN "ratelimit"
  ELSE IF MissingQuote(reply) THEN "noquote"
  ELSE IF InvalidQuote(reply) THEN "invalid"
  ELSE "success"

\* the chain with the throttle checks ahead of the error check
InlineOutcome_noteFirst(reply) ==
  IF Throws(reply) THEN "catch"
  ELSE IF reply.information THEN "information"
  ELSE IF reply.note THEN "note"
  ELSE IF reply.errorMessage THEN "error"
  ELSE IF MissingQuote(reply) THEN "noquote"
  ELSE IF InvalidQuote(reply) THEN "invalid"
  ELSE "success"

\* The if-chain of the inline-Cache GET after `await response.json()`.
InlineOutcome(reply) ==
  IF Throws(reply) THEN "catch"
  ELSE IF reply.errorMessage THEN "error"
  ELSE IF reply.information THEN "information"
  ELSE IF reply.note THEN "note"
  ELSE IF MissingQuote(reply) THEN "noquote"
  ELSE IF InvalidQuote(reply) THEN "invalid"
  ELSE "success"

FormatResult(quote, t) ==
  [status |-> "success",
   symbol |-> quote.symbol,
   price |-> toFixed2(parseFloat(quote.price)),
   change |-> toFixed2(parseFloat(quote.change)),
   changePercent |-> quote.changePercent,
   lastTradingDay |-> quote.lastTradingDay,
   timestamp |-> toISOString(t),
   lastRefreshed |-> toISOString(t)]

ErrorBody(msg) == [status |-> "error", message |-> msg]

\* Response.json without the status option
Respond_defaultStatus(http, body) == [http |-> 200, body |-> body]

Respond(http, body) == [http |-> http, body |-> body]

(* ---------------------------------------------------------------------- *)
(* Requests                                                               *)
(* ---------------------------------------------------------------------- *)
NoMark == [called |-> FALSE, before |-> NoDeadline, after |-> NoDeadline, at |-> 0]

Marked(before, after, t) ==
  [called |-> TRUE, before |-> before, after |-> after, at |-> t]

\* The limiter was consulted at t and left the deadline as it was.
Checked(until, t) ==
  [called |-> FALSE, before |-> until, after |-> until, at |-> t]

NoSnapshot == [entry |-> null, until |-> NoDeadline, at |-> 0, stored |-> null]

Snapshot(c, until) == [entry |-> c[CACHE_KEY], until |-> until, at |-> now,
                       stored |-> lastStored[CACHE_KEY]]

IdleReq ==
  [pc |-> "idle", resp |-> null, calls |-> 0, via |-> "none",
   pre |-> NoSnapshot,      \* shared state when the request started
   atReply |-> NoSnapshot,  \* shared state when its upstream reply was handled
   post |-> NoSnapshot,     \* shared state when it responded
   outcome |-> "none",      \* classification of the upstream reply
   mark |-> NoMark,         \* its call of setRateLimited, or its limiter
                            \* check in the throttle branch
   fetchLimited |-> FALSE,  \* a deadline was recorded and ahead when its fetch started
   fetchFresh |-> FALSE,    \* its fetch started within the TTL of the last set
   reply |-> NoReply,       \* the upstream reply it handled
   gates |-> {},            \* the gates it consulted, with their answers
   limited |-> FALSE, cached |-> null, stale |-> null]

\* The response of a finished request is observable in the state that
\* follows its last step; only the requests in flight are kept afterwards.
Settle(rq) == [x \in {y \in BagToSet(rq) : y.pc # "done"} |-> rq[x]]

\* At most MaxConcurrent requests are in flight.
CanStart == BagCardinality(Settle(req)) < MaxConcurrent

\* A request starts, in position x.
Launch(x) == req' = Settle(req) (+) SetToBag({x})

\* Request r moves to position x.
Move(r, x) == req' = (Settle(req) (-) SetToBag({r})) (+) SetToBag({x})

\* A deadline is recorded and lies in the future.
DeadlineAhead(until, t) == until # NoDeadline /\ t < until

\* What a request learnt from cache.get and from isRateLimited.
StoreRead(ret) == IF ret = null THEN "store absent" ELSE "store present"

\* What a request learnt from cache.getStale at its cache check.
StaleRead(ret) == IF ret = null THEN "stale absent" ELSE "stale present"

\* a handler that goes on to the upstream although a stale value exists
ServeStale_never(stale) == FALSE

\* `if (staleCache)` after the cache check
ServeStale(stale) == stale # null

LimiterRead(ret) == IF ret THEN "limited" ELSE "not limited"

\* the credential test left out
KeyMissing_never(key) == FALSE

\* `!apiKey` on process.env.ALPHA_VANTAGE_API_KEY
KeyMissing(key) == ~key

\* a handler that fetches once more when the first attempt threw
Done_retryOnCatch(me, via, resp, c, until) ==
  IF via = "catch" /\ me.calls < 2
  THEN [me EXCEPT !.pc = "fetch", !.calls = @ + 1]
  ELSE [me EXCEPT !.pc = "done", !.via = via, !.resp = resp,
                  !.post = Snapshot(c, until)]

Done(me, via, resp, c, until) ==
  [me EXCEPT !.pc = "done", !.via = via, !.resp = resp,
             !.post = Snapshot(c, until)]

\* No reply is being compared.
NoEcho == [pc |-> "idle"]

\* The polling script has not run.
NoPage == [pc |-> "unloaded"]

\* No KV namespace is bound: the cache object works in memory.
NoKV == [bound |-> FALSE, until |-> NoDeadline]

NoAfter == [until |-> NoDeadline, kvUntil |-> NoDeadline, marked |-> FALSE]

IdleAdmin ==
  [pc |-> "idle", resp |-> null,
   before |-> NoAfter,   \* the deadlines when the reset started
   after |-> NoAfter,    \* the deadlines when it completed, and whether the
                         \* limiter was marked while it ran
   marked |-> FALSE,     \* setRateLimited was called since the reset started
   next |-> "none"]      \* answer of the first limiter check after it

Init ==
  /\ now = 0
  /\ ticks = 0
  /\ variant \in {"inline", "kv"}
  /\ apiKey \in BOOLEAN
  /\ cache = EmptyCache
  /\ rateLimitUntil = NoDeadline
  /\ req = EmptyBag
  /\ lastStored = [k \in Keys |-> null]
  /\ last = NoCall
  /\ kv = NoKV
  /\ admin = IdleAdmin
  /\ echo = NoEcho
  /\ ui = NoPage

(* ---------------------------------------------------------------------- *)
(* GET, inline-Cache variant (route.js 577-834)                           *)
(* ---------------------------------------------------------------------- *)

\* From the start of the handler to `await fetch(apiUrl)` or an early return.
InlineStart ==
  /\ variant = "inline"
  /\ CanStart
  /\ LET g == get(cache, CACHE_KEY, now)
         l == isRateLimited(rateLimitUntil, now)
         staleCache == getStale(g.cache, CACHE_KEY)
         me == [IdleReq EXCEPT !.pre = Snapshot(cache, rateLimitUntil)]
         set1(x) == Launch(x)
     IN
     /\ cache' = g.cache
     /\ lastStored' = NoteGet(lastStored, CACHE_KEY, now)
     /\ IF g.ret # null
        THEN /\ set1(Done(me, "hit", Respond(200, g.ret), g.cache, rateLimitUntil))
             /\ UNCHANGED rateLimitUntil
        ELSE /\ rateLimitUntil' = l.until
             /\ IF l.ret
                THEN set1(Done([me EXCEPT !.limited = TRUE], "gate",
                               IF staleCache # null
                               THEN Respond(200, staleCache)
                               ELSE Respond(503, ErrorBody(
                                 "Service temporarily unavailable - API rate limit reached")),
                               g.cache, l.until))
                ELSE IF KeyMissing(apiKey)
                THEN set1(Done(me, "nokey",
                               Respond(500, ErrorBody("API key not configured")),
                               g.cache, l.until))
                ELSE set1([IdleReq EXCEPT !.pc = "fetch", !.calls = 1,
                             !.gates = {StoreRead(g.ret), LimiterRead(l.ret)},
                             !.fetchLimited = DeadlineAhead(l.until, now),
                             !.fetchFresh = WithinTtl(lastStored[CACHE_KEY], now)])
  /\ UNCHANGED <<now, ticks, variant, echo, ui, kv, admin, apiKey, last>>

\* From the settling of `await fetch(apiUrl)` to the response.
InlineReply(r, reply) ==
  /\ variant = "inline"
  /\ r.pc = "fetch"
  /\ LET o == InlineOutcome(reply)
         me == [r EXCEPT !.outcome = o, !.reply = reply,
                              !.atReply = Snapshot(cache, rateLimitUntil)]
         staleCache == getStale(cache, CACHE_KEY)
         result == FormatResult(reply.quote, now)
         serveStale(msg) == IF staleCache # null THEN Respond(200, staleCache)
                            ELSE Respond(503, ErrorBody(msg))
         set1(x) == Move(r, x)
     IN
     CASE o = "error" ->
            /\ set1(Done(me, o, Respond(503, ErrorBody("Service not available")),
                         cache, rateLimitUntil))
            /\ UNCHANGED <<cache, rateLimitUntil, lastStored>>
       [] o = "information" ->
            /\ rateLimitUntil' = setRateLimited(now)
            /\ set1(Done([me EXCEPT !.mark = Marked(rateLimitUntil, setRateLimited(now), now)], o,
                         serveStale("Service temporarily unavailable - API rate limit reached"),
                         cache, setRateLimited(now)))
            /\ UNCHANGED <<cache, lastStored>>
       [] o = "note" ->
            /\ rateLimitUntil' = NoteDeadline(now)
            /\ set1(Done([me EXCEPT !.mark = Marked(rateLimitUntil, NoteDeadline(now), now)], o,
                         serveStale("Service not available"),
                         cache, NoteDeadline(now)))
            /\ UNCHANGED <<cache, lastStored>>
       [] o \in {"noquote", "invalid"} ->
            /\ set1(Done(me, o, Respond(503, ErrorBody("Service not available")),
                         cache, rateLimitUntil))
            /\ UNCHANGED <<cache, rateLimitUntil, lastStored>>
       [] o = "success" ->
            /\ cache' = set(cache, CACHE_KEY, result, CACHE_TTL, now)
            /\ lastStored' = [lastStored EXCEPT
                               ![CACHE_KEY] = Written(result, now, CACHE_TTL)]
            /\ set1(Done(me, o, Respond(200, result),
                         set(cache, CACHE_KEY, result, CACHE_TTL, now), rateLimitUntil))
            /\ UNCHANGED <<rateLimitUntil>>
       [] o = "catch" ->
            /\ set1(Done(me, o, serveStale("Service not available"),
                         cache, rateLimitUntil))
            /\ UNCHANGED <<cache, rateLimitUntil, lastStored>>
  /\ UNCHANGED <<now, ticks, variant, echo, ui, kv, admin, apiKey, last>>

(* ---------------------------------------------------------------------- *)
(* The clock                                                              *)
(* ---------------------------------------------------------------------- *)
\* The clock moves by a millisecond, by the TTL of the deployed handler, or
\* to the next instant at which a deadline recorded now falls due.
Deltas(t) ==
  IF variant = "kv" THEN {1, KV_CACHE_TTL * 1000, DayMs}
  ELSE IF variant = "plain" THEN {1, PLAIN_CACHE_TTL * 1000, CACHE_TTL * 1000}
  ELSE {1, CACHE_TTL * 1000, NextUtcMidnight(t) - t}

Tick ==
  /\ ticks < MaxTicks
  /\ \E d \in Deltas(now) : now' = now + d
  /\ ticks' = ticks + 1
  /\ req' = Settle(req)
  /\ UNCHANGED <<variant, echo, ui, kv, admin, apiKey, cache, rateLimitUntil, lastStored, last>>

(* ---------------------------------------------------------------------- *)
(* GET, KV-backed variant: one step per stretch between two awaits        *)
(* ---------------------------------------------------------------------- *)
\* an annotation that also marks the body as an error
Annotate_asError(value, flag, msg) ==
  (flag :> TRUE) @@ ("message" :> msg) @@ ("status" :> "error") @@ value

\* { ...staleCache, [flag]: true, message: msg }
Annotate(value, flag, msg) == (flag :> TRUE) @@ ("message" :> msg) @@ value

KVStep(r, pc) == variant = "kv" /\ r.pc = pc

KVSet(r, x) == Move(r, x)

KVFrame == UNCHANGED <<now, ticks, variant, echo, ui, kv, admin, apiKey, last>>

GateAnswer(stale) ==
  IF stale # null
  THEN Respond(200, Annotate(stale, "rateLimited", "Serving cached data due to rate limit"))
  ELSE Respond(503, ErrorBody("Service temporarily unavailable due to rate limit"))

ThrottleAnswer(stale) ==
  IF stale # null
  THEN Respond(200, Annotate(stale, "rateLimited", "Serving cached data due to rate limit"))
  ELSE Respond(503, ErrorBody("Service not available - rate limit exceeded"))

\* a catch block whose awaited getStale rejects: the handler ends without a
\* response
CatchAnswer_rejects(stale) == null

CatchAnswer(stale) ==
  IF stale # null
  THEN Respond(200, Annotate(stale, "error", "Serving cached data due to API error"))
  ELSE Respond(503, ErrorBody("Service not available"))

\* A stretch that follows an awaited cache call and reads no shared state is
\* taken together with that call.

\* To `await cache.isRateLimited()`.
KVStart ==
  /\ variant = "kv"
  /\ CanStart
  /\ LET l == KV_isRateLimited(rateLimitUntil, now) IN
     /\ rateLimitUntil' = l.until
     /\ Launch([IdleReq EXCEPT !.pc = "gate", !.limited = l.ret,
                                !.gates = {LimiterRead(l.ret)}])
  /\ UNCHANGED <<cache, lastStored>>
  /\ KVFrame

\* Under the gate: `await cache.getStale(CACHE_KEY)` and the answer.
\* Otherwise to `await cache.get(CACHE_KEY)`.
KVAfterGate(r) ==
  /\ KVStep(r, "gate")
  /\ IF r.limited
     THEN /\ KVSet(r, Done([r EXCEPT !.stale = KV_getStale(cache, CACHE_KEY)],
                           "gate", GateAnswer(KV_getStale(cache, CACHE_KEY)),
                           cache, rateLimitUntil))
          /\ UNCHANGED <<cache, lastStored>>
     ELSE LET g == KV_get(cache, CACHE_KEY, now) IN
          /\ cache' = g.cache
          /\ lastStored' = NoteGet(lastStored, CACHE_KEY, now)
          /\ KVSet(r, [r EXCEPT !.pc = "gotCached", !.cached = g.ret,
                           !.gates = @ \cup {StoreRead(g.ret)}])
  /\ UNCHANGED rateLimitUntil
  /\ KVFrame

\* `await cache.getStale(CACHE_KEY)`, then the cached answer or the stale
\* answer; otherwise on to the credential and the fetch.
KVAfterGet(r) ==
  /\ KVStep(r, "gotCached")
  /\ LET staleCache == KV_getStale(cache, CACHE_KEY)
         me == [r EXCEPT !.stale = staleCache,
                         !.gates = @ \cup {StaleRead(staleCache)}]
     IN
     IF r.cached # null
     THEN KVSet(r, Done(me, "hit", Respond(200, r.cached), cache, rateLimitUntil))
     ELSE IF ServeStale(staleCache)
     THEN KVSet(r, Done(me, "stale",
                        Respond(200, Annotate(staleCache, "stale", "Serving cached data")),
                        cache, rateLimitUntil))
     ELSE KVSet(r, [me EXCEPT !.pc = "gotStale"])
  /\ UNCHANGED <<cache, rateLimitUntil, lastStored>>
  /\ KVFrame

\* The credential is read; without it the 500 answer, with it
\* `await fetch(apiUrl)` is issued.
KVFetch(r) ==
  /\ KVStep(r, "gotStale")
  /\ IF KeyMissing(apiKey)
     THEN KVSet(r, Done(r, "nokey",
                        Respond(500, ErrorBody("API key not configured")),
                        cache, rateLimitUntil))
     ELSE KVSet(r, [r EXCEPT !.pc = "fetch", !.calls = @ + 1,
                      !.fetchLimited = DeadlineAhead(rateLimitUntil, now),
                      !.fetchFresh = WithinTtl(lastStored[CACHE_KEY], now)])
  /\ UNCHANGED <<cache, rateLimitUntil, lastStored>>
  /\ KVFrame

\* From the settling of `await fetch(apiUrl)` to the next awaited cache call
\* that is followed by a read or write of shared state, or to the answer.
KVReply(r, reply) ==
  /\ KVStep(r, "fetch")
  /\ LET o == KVOutcome(reply)
         me == [r EXCEPT !.outcome = o]
         result == FormatResult(reply.quote, now)
         l == KV_isRateLimited(rateLimitUntil, now)
     IN
     CASE o = "catch" ->
            /\ KVSet(r, Done([me EXCEPT !.stale = KV_getStale(cache, CACHE_KEY)],
                             o, CatchAnswer(KV_getStale(cache, CACHE_KEY)),
                             cache, rateLimitUntil))
            /\ UNCHANGED <<cache, rateLimitUntil, lastStored>>
       [] o \in {"error", "noquote", "invalid"} ->
            /\ KVSet(r, Done(me, o, Respond(503, ErrorBody("Service not available")),
                             cache, rateLimitUntil))
            /\ UNCHANGED <<cache, rateLimitUntil, lastStored>>
       [] o = "ratelimit" ->
            /\ rateLimitUntil' = l.until
            /\ KVSet(r, [me EXCEPT !.pc = "rlChecked", !.limited = l.ret,
                                   !.mark = Checked(l.until, now)])
            /\ UNCHANGED <<cache, lastStored>>
       [] o = "success" ->
            /\ cache' = KV_set(cache, CACHE_KEY, result, KV_CACHE_TTL, now)
            /\ lastStored' = [lastStored EXCEPT
                               ![CACHE_KEY] = Written(result, now, KV_CACHE_TTL)]
            /\ KVSet(r, Done(me, o, Respond(200, result),
                             KV_set(cache, CACHE_KEY, result, KV_CACHE_TTL, now),
                             rateLimitUntil))
            /\ UNCHANGED rateLimitUntil
  /\ KVFrame

\* a throttle branch that sets the deadline whatever the check answered
ShouldMark_always(limited) == TRUE

\* `if (!(await cache.isRateLimited()))`
ShouldMark(limited) == ~limited

\* After `await cache.isRateLimited()` in the throttle branch: the deadline
\* is set when the limiter was found inactive; otherwise
\* `await cache.getStale(CACHE_KEY)` and the answer.
KVRlChecked(r) ==
  /\ KVStep(r, "rlChecked")
  /\ IF ShouldMark(r.limited)
     THEN LET rateLimitExpiry == now + DayMs IN
          /\ rateLimitUntil' = KV_setRateLimited(rateLimitExpiry)
          /\ KVSet(r, [r EXCEPT !.pc = "rlSet",
                         !.mark = Marked(rateLimitUntil,
                                         KV_setRateLimited(rateLimitExpiry), now)])
     ELSE /\ KVSet(r, Done([r EXCEPT !.stale = KV_getStale(cache, CACHE_KEY)],
                           "ratelimit", ThrottleAnswer(KV_getStale(cache, CACHE_KEY)),
                           cache, rateLimitUntil))
          /\ UNCHANGED rateLimitUntil
  /\ UNCHANGED <<cache, lastStored>>
  /\ KVFrame

\* After `await cache.setRateLimited(rateLimitExpiry)`:
\* `await cache.getStale(CACHE_KEY)` and the answer.
KVRlSet(r) ==
  /\ KVStep(r, "rlSet")
  /\ KVSet(r, Done([r EXCEPT !.stale = KV_getStale(cache, CACHE_KEY)],
                   "ratelimit", ThrottleAnswer(KV_getStale(cache, CACHE_KEY)),
                   cache, rateLimitUntil))
  /\ UNCHANGED <<cache, rateLimitUntil, lastStored>>
  /\ KVFrame

InlineInit == Init /\ variant = "inline"

Next ==
  \/ InlineStart
  \/ \E r \in BagToSet(req), reply \in Replies : InlineReply(r, reply)
  \/ Tick

Spec == InlineInit /\ [][Next]_vars

NextKV ==
  \/ Next
  \/ KVStart
  \/ \E r \in BagToSet(req) : KVAfterGate(r)
  \/ \E r \in BagToSet(req) : KVAfterGet(r)
  \/ \E r \in BagToSet(req) : KVFetch(r)
  \/ \E r \in BagToSet(req), reply \in Replies : KVReply(r, reply)
  \/ \E r \in BagToSet(req) : KVRlChecked(r)
  \/ \E r \in BagToSet(req) : KVRlSet(r)

SpecKV == Init /\ [][NextKV]_vars

(* ---------------------------------------------------------------------- *)
(* GET, 12-second-TTL variant without rate-limit flag (lib/cache.js       *)
(* 53-219)                                                                *)
(* ---------------------------------------------------------------------- *)
\* the cache test left out
Hit_never(ret) == FALSE

\* `if (cached)`
Hit(ret) == ret # null

\* The if-chain of the 12-second GET after `await response.json()`: only
\* data['Note'] is taken as a throttle signal.
PlainOutcome(reply) ==
  IF Throws(reply) THEN "catch"
  ELSE IF reply.errorMessage THEN "error"
  ELSE IF reply.note THEN "note"
  ELSE IF MissingQuote(reply) THEN "noquote"
  ELSE IF InvalidQuote(reply) THEN "invalid"
  ELSE "success"

\* From the start of the handler to `await fetch(apiUrl)` or an early return.
PlainStart ==
  /\ variant = "plain"
  /\ CanStart
  /\ LET g == get(cache, CACHE_KEY, now)
         me == [IdleReq EXCEPT !.pre = Snapshot(cache, rateLimitUntil),
                               !.gates = {StoreRead(g.ret)}]
     IN
     /\ cache' = g.cache
     /\ lastStored' = NoteGet(lastStored, CACHE_KEY, now)
     /\ IF Hit(g.ret)
        THEN Launch(Done(me, "hit", Respond(200, g.ret), g.cache, rateLimitUntil))
        ELSE IF KeyMissing(apiKey)
        THEN Launch(Done(me, "nokey",
                         Respond(500, ErrorBody("API key not configured")),
                         g.cache, rateLimitUntil))
        ELSE Launch([me EXCEPT !.pc = "fetch", !.calls = 1,
                                !.fetchFresh = WithinTtl(lastStored[CACHE_KEY], now)])
  /\ UNCHANGED <<now, ticks, variant, echo, ui, kv, admin, apiKey, rateLimitUntil, last>>

\* From the settling of `await fetch(apiUrl)` to the response.  The Note
\* branch and the catch block read the store with cache.get.
PlainReply(r, reply) ==
  /\ variant = "plain"
  /\ r.pc = "fetch"
  /\ LET o == PlainOutcome(reply)
         me == [r EXCEPT !.outcome = o, !.reply = reply,
                         !.atReply = Snapshot(cache, rateLimitUntil)]
         g == get(cache, CACHE_KEY, now)
         result == FormatResult(reply.quote, now)
     IN
     CASE o \in {"error", "noquote", "invalid"} ->
            /\ Move(r, Done(me, o, Respond(503, ErrorBody("Service not available")),
                            cache, rateLimitUntil))
            /\ UNCHANGED <<cache, lastStored>>
       [] o \in {"note", "catch"} ->
            /\ cache' = g.cache
            /\ lastStored' = NoteGet(lastStored, CACHE_KEY, now)
            /\ Move(r, Done(me, o,
                            IF g.ret # null THEN Respond(200, g.ret)
                            ELSE Respond(503, ErrorBody("Service not available")),
                            g.cache, rateLimitUntil))
       [] o = "success" ->
            /\ cache' = set(cache, CACHE_KEY, result, PLAIN_CACHE_TTL, now)
            /\ lastStored' = [lastStored EXCEPT
                               ![CACHE_KEY] = Written(result, now, PLAIN_CACHE_TTL)]
            /\ Move(r, Done(me, o, Respond(200, result),
                            set(cache, CACHE_KEY, result, PLAIN_CACHE_TTL, now),
                            rateLimitUntil))
  /\ UNCHANGED <<now, ticks, variant, echo, ui, kv, admin, apiKey, rateLimitUntil, last>>

\* The three handlers, each deployed on its own.
AllInit ==
  /\ now = 0
  /\ ticks = 0
  /\ variant \in {"inline", "kv", "plain"}
  /\ apiKey \in BOOLEAN
  /\ cache = EmptyCache
  /\ rateLimitUntil = NoDeadline
  /\ req = EmptyBag
  /\ lastStored = [k \in Keys |-> null]
  /\ last = NoCall
  /\ kv = NoKV
  /\ admin = IdleAdmin
  /\ echo = NoEcho
  /\ ui = NoPage

NextAll ==
  \/ NextKV
  \/ PlainStart
  \/ \E r \in BagToSet(req), reply \in Replies : PlainReply(r, reply)

SpecAll == AllInit /\ [][NextAll]_vars

(* ---------------------------------------------------------------------- *)
(* The inline-Cache handler with its scheduling: the clock advances and   *)
(* clients keep calling.  `await fetch(apiUrl)` is given no timeout or    *)
(* abort signal, so nothing in the handler settles it: the reply is the   *)
(* upstream's step and is not forced.                                     *)
(* ---------------------------------------------------------------------- *)
SpecLive ==
  /\ InlineInit
  /\ [][Next]_vars
  /\ WF_vars(Tick)
  /\ WF_vars(InlineStart)

(* ---------------------------------------------------------------------- *)
(* The inline-Cache handler while a deadline is recorded.  The clock      *)
(* passes every recorded deadline and every stored expiry (Elapse) and    *)
(* the client keeps polling (InlineStart); Elapse is counted with the     *)
(* other clock steps.                                                     *)
(* ---------------------------------------------------------------------- *)
CanElapse == ticks <= MaxTicks

\* The latest instant at which the recorded deadline or the stored entry
\* still holds a request back.
Horizon ==
  LET e == IF cache[CACHE_KEY] = null THEN 0 ELSE cache[CACHE_KEY].expiresAt
  IN IF e > rateLimitUntil THEN e ELSE rateLimitUntil

\* The clock reaches the first instant after the horizon.
Elapse ==
  /\ now <= Horizon
  /\ CanElapse
  /\ now' = Horizon + 1
  /\ ticks' = ticks + 1
  /\ req' = Settle(req)
  /\ UNCHANGED <<variant, echo, ui, kv, admin, apiKey, cache, rateLimitUntil,
                 lastStored, last>>

ThawNext ==
  \/ Next
  \/ Elapse

SpecThaw ==
  /\ InlineInit
  /\ [][ThawNext]_vars
  /\ WF_vars(Elapse)
  /\ WF_vars(InlineStart)

(* ---------------------------------------------------------------------- *)
(* Both handlers with their scheduling when the upstream is healthy: the  *)
(* client keeps polling, every awaited cache call of the KV-backed        *)
(* handler settles, and a pending fetch is again and again able to be     *)
(* answered with a valid quote and eventually is.                         *)
(* ---------------------------------------------------------------------- *)
ValidReplies == {x \in Replies : KVOutcome(x) = "success"}

AnswerValid ==
  \E r \in BagToSet(req), reply \in ValidReplies :
    InlineReply(r, reply) \/ KVReply(r, reply)

AwaitSettles ==
  \E r \in BagToSet(req) :
    KVAfterGate(r) \/ KVAfterGet(r) \/ KVFetch(r) \/ KVRlChecked(r) \/ KVRlSet(r)

SpecRefresh ==
  /\ Init
  /\ [][NextKV]_vars
  /\ WF_vars(InlineStart)
  /\ WF_vars(KVStart)
  /\ WF_vars(AwaitSettles)
  /\ SF_vars(AnswerValid)

(* ---------------------------------------------------------------------- *)
(* The three handlers with an upstream whose price field may also be a    *)
(* numeral that parseFloat reads as a non-finite number.                  *)
(* ---------------------------------------------------------------------- *)
NonFiniteReplies ==
  {[transport |-> "ok", errorMessage |-> FALSE, note |-> FALSE,
    information |-> FALSE, hasQuote |-> TRUE,
    quote |-> [FullQuote EXCEPT !.price = "Infinity"]]}

NextAny ==
  \/ NextAll
  \/ \E r \in BagToSet(req), reply \in NonFiniteReplies :
       InlineReply(r, reply) \/ KVReply(r, reply) \/ PlainReply(r, reply)

SpecAny == AllInit /\ [][NextAny]_vars

(* ---------------------------------------------------------------------- *)
(* The environment: process.env.ALPHA_VANTAGE_API_KEY is read by every    *)
(* request and can differ from one request to the next.                   *)
(* ---------------------------------------------------------------------- *)
EnvChange ==
  /\ apiKey' = ~apiKey
  /\ req' = Settle(req)
  /\ UNCHANGED <<now, ticks, variant, echo, ui, kv, admin, cache, rateLimitUntil, lastStored, last>>

NextEnv ==
  \/ NextKV
  \/ EnvChange

SpecEnv == Init /\ [][NextEnv]_vars

(* ---------------------------------------------------------------------- *)
(* The Cache called directly (lib/cache.js 2-46)                          *)
(* ---------------------------------------------------------------------- *)
StoreValues == {[v |-> "a"], [v |-> "b"]}
StoreTtls == {12, CACHE_TTL}

StoreSet(key, value, ttlSeconds) ==
  /\ cache' = set(cache, key, value, ttlSeconds, now)
  /\ lastStored' = [lastStored EXCEPT ![key] = Written(value, now, ttlSeconds)]
  /\ last' = [op |-> "set", key |-> key, ret |-> null, at |-> now]
  /\ UNCHANGED <<now, ticks, variant, echo, ui, kv, admin, apiKey, rateLimitUntil, req>>

StoreGet(key) ==
  /\ cache' = get(cache, key, now).cache
  /\ lastStored' = NoteGet(lastStored, key, now)
  /\ last' = [op |-> "get", key |-> key, ret |-> get(cache, key, now).ret, at |-> now]
  /\ UNCHANGED <<now, ticks, variant, echo, ui, kv, admin, apiKey, rateLimitUntil, req>>

StoreGetStale(key) ==
  /\ last' = [op |-> "getStale", key |-> key, ret |-> getStale(cache, key), at |-> now]
  /\ UNCHANGED <<now, ticks, variant, echo, ui, kv, admin, apiKey, cache, rateLimitUntil, req, lastStored>>

StoreClear ==
  /\ cache' = clear(cache)
  /\ lastStored' = [k \in Keys |-> null]
  /\ last' = [op |-> "clear", key |-> CACHE_KEY, ret |-> null, at |-> now]
  /\ UNCHANGED <<now, ticks, variant, echo, ui, kv, admin, apiKey, rateLimitUntil, req>>

StoreTick ==
  /\ ticks < MaxTicks
  /\ \E d \in {1} \cup {ttl * 1000 : ttl \in StoreTtls} : now' = now + d
  /\ ticks' = ticks + 1
  /\ UNCHANGED <<variant, echo, ui, kv, admin, apiKey, cache, rateLimitUntil, req, lastStored, last>>

StoreInit ==
  /\ Init
  /\ variant = "inline"
  /\ apiKey = TRUE

StoreNext ==
  \/ \E k \in Keys, v \in StoreValues, ttl \in StoreTtls : StoreSet(k, v, ttl)
  \/ \E k \in Keys : StoreGet(k)
  \/ \E k \in Keys : StoreGetStale(k)
  \/ StoreClear
  \/ StoreTick

SpecStore == StoreInit /\ [][StoreNext]_vars

(* ---------------------------------------------------------------------- *)
(* The rate-limit flag of the inline Cache called directly (route.js      *)
(* 556-574)                                                               *)
(* ---------------------------------------------------------------------- *)
LimiterSetRateLimited ==
  /\ rateLimitUntil' = setRateLimited(now)
  /\ last' = [op |-> "setRateLimited", key |-> CACHE_KEY,
              ret |-> [before |-> rateLimitUntil], at |-> now]
  /\ UNCHANGED <<now, ticks, variant, echo, ui, kv, admin, apiKey, cache, req, lastStored>>

LimiterIsRateLimited ==
  /\ rateLimitUntil' = isRateLimited(rateLimitUntil, now).until
  /\ last' = [op |-> "isRateLimited", key |-> CACHE_KEY,
              ret |-> [limited |-> isRateLimited(rateLimitUntil, now).ret,
                       before |-> rateLimitUntil],
              at |-> now]
  /\ UNCHANGED <<now, ticks, variant, echo, ui, kv, admin, apiKey, cache, req, lastStored>>

LimiterGetRateLimitUntil ==
  /\ last' = [op |-> "getRateLimitUntil", key |-> CACHE_KEY,
              ret |-> [until |-> getRateLimitUntil(rateLimitUntil)], at |-> now]
  /\ UNCHANGED <<now, ticks, variant, echo, ui, kv, admin, apiKey, cache, rateLimitUntil, req, lastStored>>

\* The clock moves by a millisecond or to the next UTC midnight.
LimiterTick ==
  /\ ticks < MaxTicks + 1
  /\ \E d \in {1, NextUtcMidnight(now) - now} : now' = now + d
  /\ ticks' = ticks + 1
  /\ UNCHANGED <<variant, echo, ui, kv, admin, apiKey, cache, rateLimitUntil, req, lastStored, last>>

LimiterNext ==
  \/ LimiterSetRateLimited
  \/ LimiterIsRateLimited
  \/ LimiterGetRateLimitUntil
  \/ LimiterTick

SpecLimiter == StoreInit /\ [][LimiterNext]_vars

(* ---------------------------------------------------------------------- *)
(* The admin endpoint that clears the rate-limit flag (part_001 239-274), *)
(* with the calls quote requests make on the same cache object in         *)
(* between.  The limiter of that cache object is not part of the sources  *)
(* at hand; it follows sections 4.2 and 5 of the design: the deadline is  *)
(* kept in memory and, when a KV namespace is bound, under a key of that  *)
(* namespace; a check reads memory first and falls back to the namespace, *)
(* repopulating memory; a check that finds the deadline passed clears it. *)
(* ---------------------------------------------------------------------- *)
Mirror_setRateLimited(until, k, expiry) ==
  [until |-> expiry,
   kv |-> IF k.bound THEN [k EXCEPT !.until = expiry] ELSE k]

Mirror_isRateLimited(until, k, t) ==
  LET recorded == IF until # NoDeadline THEN until
                  ELSE IF k.bound THEN k.until ELSE NoDeadline
  IN
  IF recorded = NoDeadline THEN [ret |-> FALSE, until |-> until, kv |-> k]
  ELSE IF t > recorded
       THEN [ret |-> FALSE, until |-> NoDeadline,
             kv |-> [k EXCEPT !.until = NoDeadline]]
       ELSE [ret |-> TRUE, until |-> recorded, kv |-> k]

\* cache.kv.delete('__rate_limit_until__')
kvDelete(k) == [k EXCEPT !.until = NoDeadline]

\* a reset that leaves the in-memory deadline
ResetMemory_keeps(until) == until

\* cache.rateLimitUntil = null
ResetMemory(until) == NoDeadline

Deadlines(until, k, marked) ==
  [until |-> until, kvUntil |-> k.until, marked |-> marked]

Cleared == Respond(200, [status |-> "success", message |-> "Rate limit flag cleared"])

\* From the start of the admin handler to `await cache.kv.delete(...)`, which
\* deletes the key or rejects (answered 500 by the catch block); without a
\* bound namespace, to the response.
ResetStart ==
  /\ admin.pc \in {"idle", "done"}
  /\ LET me == [IdleAdmin EXCEPT !.before = Deadlines(rateLimitUntil, kv, FALSE)] IN
     IF kv.bound
     THEN \/ /\ kv' = kvDelete(kv)
             /\ admin' = [me EXCEPT !.pc = "deleted"]
             /\ UNCHANGED rateLimitUntil
          \/ /\ admin' = [me EXCEPT !.pc = "done",
                                     !.resp = Respond(500, ErrorBody("KV error")),
                                     !.after = Deadlines(rateLimitUntil, kv, FALSE)]
             /\ UNCHANGED <<kv, rateLimitUntil>>
     ELSE /\ rateLimitUntil' = ResetMemory(rateLimitUntil)
          /\ admin' = [me EXCEPT !.pc = "done", !.resp = Cleared,
                                 !.after = Deadlines(ResetMemory(rateLimitUntil), kv, FALSE)]
          /\ UNCHANGED kv
  /\ UNCHANGED <<now, ticks, variant, echo, ui, apiKey, cache, req, lastStored, last>>

\* After `await cache.kv.delete(...)`: the in-memory deadline is cleared and
\* the handler responds.
ResetClear ==
  /\ admin.pc = "deleted"
  /\ rateLimitUntil' = ResetMemory(rateLimitUntil)
  /\ admin' = [admin EXCEPT !.pc = "done", !.resp = Cleared,
                            !.after = Deadlines(ResetMemory(rateLimitUntil), kv,
                                                admin.marked)]
  /\ UNCHANGED <<now, ticks, variant, echo, ui, apiKey, cache, req, lastStored, last, kv>>

\* A quote request's `await cache.isRateLimited()`.
ResetIsRateLimited ==
  /\ LET l == Mirror_isRateLimited(rateLimitUntil, kv, now) IN
     /\ rateLimitUntil' = l.until
     /\ kv' = l.kv
     /\ last' = [op |-> "isRateLimited", key |-> CACHE_KEY,
                 ret |-> [limited |-> l.ret, before |-> rateLimitUntil], at |-> now]
     /\ admin' = IF admin.pc = "done" /\ admin.next = "none"
                 THEN [admin EXCEPT !.next = IF l.ret THEN "stopped" ELSE "passed"]
                 ELSE admin
  /\ UNCHANGED <<now, ticks, variant, echo, ui, apiKey, cache, req, lastStored>>

\* A quote request's `await cache.setRateLimited(rateLimitExpiry)`.
ResetSetRateLimited ==
  /\ LET m == Mirror_setRateLimited(rateLimitUntil, kv, now + DayMs) IN
     /\ rateLimitUntil' = m.until
     /\ kv' = m.kv
  /\ last' = [op |-> "setRateLimited", key |-> CACHE_KEY,
              ret |-> [before |-> rateLimitUntil], at |-> now]
  /\ admin' = IF admin.pc \in {"deleted", "done"}
              THEN [admin EXCEPT !.marked = TRUE]
              ELSE admin
  /\ UNCHANGED <<now, ticks, variant, echo, ui, apiKey, cache, req, lastStored>>

\* A quote request's `await cache.set(CACHE_KEY, result, CACHE_TTL)`.
ResetStoreSet(value) ==
  /\ cache' = KV_set(cache, CACHE_KEY, value, KV_CACHE_TTL, now)
  /\ lastStored' = [lastStored EXCEPT
                     ![CACHE_KEY] = Written(value, now, KV_CACHE_TTL)]
  /\ last' = [op |-> "set", key |-> CACHE_KEY, ret |-> null, at |-> now]
  /\ UNCHANGED <<now, ticks, variant, echo, ui, apiKey, rateLimitUntil, req, kv, admin>>

ResetTick ==
  /\ ticks < MaxTicks
  /\ \E d \in {1, DayMs} : now' = now + d
  /\ ticks' = ticks + 1
  /\ UNCHANGED <<variant, echo, ui, apiKey, cache, rateLimitUntil, req, lastStored, last,
                 kv, admin>>

ResetInit ==
  /\ now = 0
  /\ ticks = 0
  /\ variant = "kv"
  /\ apiKey = TRUE
  /\ cache = EmptyCache
  /\ rateLimitUntil = NoDeadline
  /\ req = EmptyBag
  /\ lastStored = [k \in Keys |-> null]
  /\ last = NoCall
  /\ kv \in {NoKV, [NoKV EXCEPT !.bound = TRUE]}
  /\ admin = IdleAdmin
  /\ echo = NoEcho
  /\ ui = NoPage

ResetStep == ResetStart \/ ResetClear

ResetNext ==
  \/ ResetStart
  \/ ResetClear
  \/ ResetIsRateLimited
  \/ ResetSetRateLimited
  \/ \E v \in StoreValues : ResetStoreSet(v)
  \/ ResetTick

SpecReset == ResetInit /\ [][ResetNext]_vars

(* ---------------------------------------------------------------------- *)
(* What the response bodies echo of the upstream payload.  A text is a    *)
(* sequence of pieces; the credential is spelt as single characters.  One *)
(* upstream, which may write the credential it was called with into its   *)
(* text, is asked under two credentials and the two bodies are kept.      *)
(* ---------------------------------------------------------------------- *)
\* The characters [A-Z0-9] of the credentials.
Alnum == {"A", "7"}

Credentials == {<<"A", "7">>, <<"7", "A">>, <<"7", "7">>}

\* an absent or empty property of the payload
NoText == <<>>

\* How the upstream words its text.
Wordings == {"plain", "phrase", "url"}

UpstreamText(wording, key) ==
  CASE wording = "plain" -> <<"Thank you for using Alpha Vantage.">>
    [] wording = "phrase" ->
         <<"We have detected your ", "API key as ">> \o key
           \o <<" and our standard API rate limit is 25 requests per day.">>
    [] wording = "url" -> <<"Invalid API call ", "apikey=">> \o key

\* The property of the payload that carries the text.
Properties == {"Error Message", "Information", "Note", "message"}

Payload(property, text) ==
  [errorMessage |-> IF property = "Error Message" THEN text ELSE NoText,
   information |-> IF property = "Information" THEN text ELSE NoText,
   note |-> IF property = "Note" THEN text ELSE NoText,
   message |-> IF property = "message" THEN text ELSE NoText]

RECURSIVE SkipAlnum(_)
SkipAlnum(text) ==
  IF text # <<>> /\ Head(text) \in Alnum THEN SkipAlnum(Tail(text)) ELSE text

\* text.replace(/API key as [A-Z0-9]+/gi, 'API key')
RECURSIVE replaceApiKey(_)
replaceApiKey(text) ==
  IF text = <<>> THEN <<>>
  ELSE IF Head(text) = "API key as " /\ Len(text) > 1 /\ text[2] \in Alnum
       THEN <<"API key">> \o replaceApiKey(SkipAlnum(Tail(text)))
       ELSE <<Head(text)>> \o replaceApiKey(Tail(text))

\* The body of the inline-Cache GET for a payload without a Global Quote
\* (route.js 660-757).
InlineBody(data, stale) ==
  IF data.errorMessage # NoText
  THEN [status |-> "error", message |-> "Service not available",
        alphaVantageError |-> data.errorMessage,
        debug |-> [stockSymbol |-> STOCK_SYMBOL, apiKeyConfigured |-> TRUE]]
  ELSE IF data.information # NoText
  THEN IF stale # null THEN stale
       ELSE [status |-> "error",
             message |-> "Service temporarily unavailable - API rate limit reached",
             information |-> "Daily API limit reached.",
             debug |-> [stockSymbol |-> STOCK_SYMBOL, apiKeyConfigured |-> TRUE,
                        hasCache |-> FALSE, rateLimitSet |-> TRUE]]
  ELSE IF data.note # NoText
  THEN IF stale # null THEN stale
       ELSE [status |-> "error", message |-> "Service not available",
             rateLimit |-> replaceApiKey(data.note),
             debug |-> [stockSymbol |-> STOCK_SYMBOL, apiKeyConfigured |-> TRUE,
                        rateLimitSet |-> TRUE]]
  ELSE [status |-> "error", message |-> "Service not available",
        debug |-> [stockSymbol |-> STOCK_SYMBOL, apiKeyConfigured |-> TRUE,
                   responseData |-> data]]

\* The body of the KV-backed GET for a payload without a Global Quote
\* (part_001 101-168).
KVBody(data, stale, t) ==
  IF data.errorMessage # NoText
  THEN [status |-> "error", message |-> "Service not available",
        alphaVantageError |-> data.errorMessage, symbol |-> STOCK_SYMBOL]
  ELSE IF data.note # NoText \/ data.information # NoText
  THEN IF stale # null
       THEN Annotate(stale, "rateLimited", "Serving cached data due to rate limit")
       ELSE [status |-> "error",
             message |-> "Service not available - rate limit exceeded",
             rateLimit |-> TRUE,
             note |-> IF data.note # NoText THEN data.note ELSE data.information,
             retryAfter |-> toISOString(t + DayMs)]
  ELSE [status |-> "error", message |-> "Service not available",
        reason |-> "No quote data", responseData |-> data]

HandlerBody(handler, data, stale, t) ==
  IF handler = "kv" THEN KVBody(data, stale, t) ELSE InlineBody(data, stale)

\* The upstream is called under two credentials and words its reply.
EchoAsk(handler, property, wording, key1, key2, stale) ==
  /\ echo.pc \in {"idle", "done"}
  /\ echo' = [pc |-> "asked", handler |-> handler, property |-> property,
              wording |-> wording, keys |-> <<key1, key2>>, stale |-> stale,
              bodies |-> <<null, null>>]
  /\ UNCHANGED <<now, ticks, variant, apiKey, cache, rateLimitUntil, req,
                 lastStored, last, kv, admin, ui>>

\* The handler answers each of the two replies.
EchoRespond ==
  /\ echo.pc = "asked"
  /\ LET body(key) ==
           HandlerBody(echo.handler,
                       Payload(echo.property, UpstreamText(echo.wording, key)),
                       echo.stale, now)
     IN echo' = [echo EXCEPT !.pc = "done",
                             !.bodies = <<body(echo.keys[1]), body(echo.keys[2])>>]
  /\ UNCHANGED <<now, ticks, variant, apiKey, cache, rateLimitUntil, req,
                 lastStored, last, kv, admin, ui>>

EchoNext ==
  \/ \E handler \in {"inline", "kv"}, property \in Properties, wording \in Wordings,
        key1 \in Credentials, key2 \in Credentials,
        stale \in {null, FormatResult(FullQuote, 0)} :
          EchoAsk(handler, property, wording, key1, key2, stale)
  \/ EchoRespond

SpecEcho == Init /\ [][EchoNext]_vars

(* ---------------------------------------------------------------------- *)
(* The polling client (public/ticker-script.js).  The page holds the      *)
(* style.display of the container and of the error element and the texts  *)
(* the script writes; polls in flight are counted by the await they are   *)
(* at.                                                                    *)
(* ---------------------------------------------------------------------- *)
\* The JSON bodies the endpoint sends to the client: a result, a stored
\* result served under a rate limit, error bodies, and bodies without a
\* status.
ClientBodies ==
  { FormatResult(FullQuote, 0),
    Annotate(FormatResult(FullQuote, 0), "rateLimited",
             "Serving cached data due to rate limit"),
    ErrorBody("Service temporarily unavailable - API rate limit reached"),
    [status |-> "error"],
    [message |-> "Not found"],
    null }

\* data.f, undefined when the property is absent; reading a property of
\* null throws.
Field(data, f) == IF f \in DOMAIN data THEN data[f] ELSE undefined

ThrowsOnRead(data) == data = null

\* updateUI whose error path leaves the container as it is
updateUI_keepsContainer(page, data) ==
  IF Field(data, "status") # "success"
  THEN [page EXCEPT !.errorText = IF Field(data, "message") \in {undefined, ""}
                                  THEN "Service not available"
                                  ELSE Field(data, "message"),
                    !.error = "block"]
  ELSE [page EXCEPT !.symbol = Field(data, "symbol"),
                    !.price = "$" \o Field(data, "price"),
                    !.container = "",
                    !.error = "none"]

updateUI(page, data) ==
  IF Field(data, "status") # "success"
  THEN [page EXCEPT !.container = "none",
                    !.errorText = IF Field(data, "message") \in {undefined, ""}
                                  THEN "Service not available"
                                  ELSE Field(data, "message"),
                    !.error = "block"]
  ELSE [page EXCEPT !.symbol = Field(data, "symbol"),
                    !.price = "$" \o Field(data, "price"),
                    !.container = "",
                    !.error = "none"]

\* The catch block of fetchStockData.
ClientCatch(page) ==
  updateUI(page, [status |-> "error", message |-> "Service not available"])

\* What a completed poll yielded: the HTTP status was OK and the body had
\* status success.
Yielded(ok, success) == [ok |-> ok, success |-> success]

Completed(page, result) ==
  [page EXCEPT !.lastPoll = result,
               !.everSuccess = @ \/ (result.ok /\ result.success)]

\* The script runs on a page.  When an element is missing it returns at
\* once and the page stays as designed; otherwise it hides both elements and
\* starts the first poll.
ScriptLoad(elementsFound, designed) ==
  /\ ui.pc = "unloaded"
  /\ ui' = IF elementsFound
           THEN [pc |-> "polling", container |-> "none", error |-> "none",
                 errorText |-> "", symbol |-> "", price |-> "",
                 polls |-> 1, atFetch |-> 1, atJson |-> 0,
                 lastPoll |-> null, everSuccess |-> FALSE]
           ELSE [pc |-> "returned", container |-> designed, error |-> designed,
                 errorText |-> "", symbol |-> "", price |-> "",
                 polls |-> 0, atFetch |-> 0, atJson |-> 0,
                 lastPoll |-> null, everSuccess |-> FALSE]
  /\ UNCHANGED <<now, ticks, variant, apiKey, cache, rateLimitUntil, req,
                 lastStored, last, kv, admin, echo>>

\* setInterval(fetchStockData, POLL_INTERVAL) fires: one more poll starts,
\* whether or not the earlier ones have completed.
PollTimer ==
  /\ ui.pc = "polling"
  /\ ui.polls < MaxPolls
  /\ ui' = [ui EXCEPT !.polls = @ + 1, !.atFetch = @ + 1]
  /\ UNCHANGED <<now, ticks, variant, apiKey, cache, rateLimitUntil, req,
                 lastStored, last, kv, admin, echo>>

\* `await fetch(API_URL)` of one poll settles: with an OK status, with
\* another status, or by rejecting.
PollFetched(outcome) ==
  /\ ui.pc = "polling"
  /\ ui.atFetch > 0
  /\ ui' = IF outcome = "ok"
           THEN [ui EXCEPT !.atFetch = @ - 1, !.atJson = @ + 1]
           ELSE Completed([ClientCatch(ui) EXCEPT !.atFetch = @ - 1],
                          Yielded(FALSE, FALSE))
  /\ UNCHANGED <<now, ticks, variant, apiKey, cache, rateLimitUntil, req,
                 lastStored, last, kv, admin, echo>>

\* `await response.json()` of one poll settles: with a body, or by rejecting.
PollParsed(parses, data) ==
  /\ ui.pc = "polling"
  /\ ui.atJson > 0
  /\ LET page == [ui EXCEPT !.atJson = @ - 1] IN
     ui' = IF (~parses) \/ ThrowsOnRead(data)
           THEN Completed(ClientCatch(page), Yielded(TRUE, FALSE))
           ELSE Completed(updateUI(page, data),
                          Yielded(TRUE, Field(data, "status") = "success"))
  /\ UNCHANGED <<now, ticks, variant, apiKey, cache, rateLimitUntil, req,
                 lastStored, last, kv, admin, echo>>

ClientNext ==
  \/ \E elementsFound \in BOOLEAN, designed \in {"", "none"} :
        ScriptLoad(elementsFound, designed)
  \/ PollTimer
  \/ \E outcome \in {"ok", "notOk", "rejects"} : PollFetched(outcome)
  \/ \E parses \in BOOLEAN, data \in ClientBodies : PollParsed(parses, data)

SpecClient == Init /\ [][ClientNext]_vars

(* ---------------------------------------------------------------------- *)
(* Properties of the Cache                                                *)
(* ---------------------------------------------------------------------- *)

\* C3 as stated: after set(key, v, ttl), getStale(key) returns v until the
\* key is overwritten or cleared, whatever get and getStale calls were made
\* in between.
C3_GetStaleAlwaysReturnsLastSet ==
  (last.op = "getStale" /\ lastStored[last.key] # null)
    => last.ret = lastStored[last.key].value

\* C3 amended: after set(key, v, ttl), getStale(key) returns v until the key
\* is overwritten, cleared, or evicted by a get made after the entry expired;
\* after such a get it returns absent.
C3_GetStaleUntilEvicted ==
  (last.op = "getStale" /\ lastStored[last.key] # null)
    => last.ret = IF lastStored[last.key].gotExpired THEN null
                  ELSE lastStored[last.key].value

\* A getStale call made after the entry's expiry, with no get since, that
\* returned the value set.
C3_Witness ==
  /\ last.op = "getStale"
  /\ lastStored[last.key] # null
  /\ last.at > ExpiryOf(lastStored[last.key])
  /\ ~lastStored[last.key].gotExpired
  /\ last.ret = lastStored[last.key].value

\* C4: after set(key, v, ttl) at t0 with no later write of the key, get(key)
\* at time t returns v when t < t0 + ttl and when t = t0 + ttl, and returns
\* absent when t > t0 + ttl.
C4_GetWithinTtl ==
  (last.op = "get" /\ lastStored[last.key] # null)
    => last.ret = IF last.at <= ExpiryOf(lastStored[last.key])
                  THEN lastStored[last.key].value
                  ELSE null

\* A get made exactly at t0 + ttl that returned the value.
C4_Witness ==
  /\ last.op = "get"
  /\ lastStored[last.key] # null
  /\ last.at = ExpiryOf(lastStored[last.key])
  /\ last.ret = lastStored[last.key].value

\* The key was set and its entry has since been evicted by a get, with no
\* set or clear in between.
Evicted(k) == lastStored[k] # null /\ lastStored[k].gotExpired

\* The key holds an entry whose expiry has passed.
HoldsExpired(k) ==
  /\ lastStored[k] # null
  /\ ~lastStored[k].gotExpired
  /\ now > ExpiryOf(lastStored[k])

\* C20: get(key) on an entry whose expiry has passed returns absent and
\* removes exactly that entry, after which the key is as if never set: it
\* has no entry, and get and getStale of it return absent. get on an
\* unexpired entry, get on an absent key and every getStale leave the Store
\* unchanged; no read changes the entry of another key.
C20_ReadsFrame ==
  /\ [](\A k \in Keys : Evicted(k) =>
          /\ cache[k] = EmptyCache[k]
          /\ (last.op \in {"get", "getStale"} /\ last.key = k) => last.ret = null)
  /\ [][\A k \in Keys : StoreGet(k) =>
          IF HoldsExpired(k)
          THEN /\ last'.ret = null
               /\ cache'[k] = null
               /\ \A other \in Keys \ {k} : cache'[other] = cache[other]
          ELSE cache' = cache]_vars
  /\ [][\A k \in Keys : StoreGetStale(k) => cache' = cache]_vars

\* A get that has just evicted the expired entry of one key while the other
\* key holds an entry.
C20_Witness ==
  /\ last.op = "get"
  /\ Evicted(last.key)
  /\ last.at > ExpiryOf(lastStored[last.key])
  /\ last.ret = null
  /\ \E other \in Keys \ {last.key} : cache[other] # null

(* ---------------------------------------------------------------------- *)
(* Properties of the GET handlers                                         *)
(* ---------------------------------------------------------------------- *)
Ended(r) == r.pc = "done"

\* The strings that parseFloat reads as a number.
NumericStrings == {"123.4500", "123.4567", "1.2300", "-0.5000"}

HasThrottle(reply) == reply.note \/ reply.information

\* The reply carries a quote object with a non-empty symbol and a numeric price.
WellFormedQuote(reply) ==
  /\ reply.hasQuote
  /\ reply.quote # EmptyQuote
  /\ reply.quote.symbol \notin {undefined, ""}
  /\ reply.quote.price \in NumericStrings

\* The outcome the classification order of the design assigns to a parsed reply.
DesignOutcome(reply) ==
  IF reply.errorMessage THEN "UpstreamError"
  ELSE IF HasThrottle(reply) THEN "RateLimited"
  ELSE IF WellFormedQuote(reply) THEN "Success"
  ELSE "Malformed"

\* The branch of the handler, named as the design names outcomes.
BranchTaken(r) ==
  CASE r.via = "error" -> "UpstreamError"
    [] r.via \in {"information", "note"} -> "RateLimited"
    [] r.via \in {"noquote", "invalid"} -> "Malformed"
    [] r.via = "success" -> "Success"
    [] OTHER -> "none"

\* C1 as stated: a request that starts while the deadline is set and in the
\* future, after an earlier request stored a quote (expired or not), returns
\* that quote with status success and makes no upstream call.
C1_GateServesStoredQuote ==
  \A r \in BagToSet(req) :
    (/\ Ended(r)
     /\ r.pre.until # NoDeadline
     /\ r.pre.at < r.pre.until
     /\ r.pre.stored # null)
    => /\ r.resp = Respond(200, r.pre.stored.value)
       /\ r.calls = 0

\* C2 as stated: a request whose upstream outcome is a failure returns the
\* value last stored for the key (if one was stored and not cleared) with
\* status success; it returns an error only when there is none.
C2_EveryFailureServesStored ==
  \A r \in BagToSet(req) :
    (/\ Ended(r)
     /\ r.reply # NoReply
     /\ (Throws(r.reply) \/ DesignOutcome(r.reply) # "Success")
     /\ r.atReply.stored # null)
    => r.resp = Respond(200, r.atReply.stored.value)

\* C5 as stated: no request starts an upstream fetch at a moment when the
\* deadline is recorded and lies in the future.
C5_NoFetchWhileLimited ==
  \A r \in BagToSet(req) : ~r.fetchLimited

\* C5 amended: a request starts an upstream fetch only after its own
\* limiter check found the limiter inactive; in the inline-Cache handler,
\* where the check and the fetch are one synchronous stretch, no fetch starts
\* while the deadline is recorded and in the future.
C5_FetchOnlyAfterOwnGate ==
  \A r \in BagToSet(req) :
    r.pc = "fetch" =>
      /\ ~r.limited
      /\ r.calls = 1
      /\ variant = "inline" => ~r.fetchLimited

\* A request of the KV-backed handler that passed the gate and starts its
\* fetch after another request has recorded a deadline.
C5_Witness ==
  \E r \in BagToSet(req) :
    /\ variant = "kv"
    /\ r.pc = "fetch"
    /\ ~r.limited
    /\ r.fetchLimited
    /\ DeadlineAhead(rateLimitUntil, now)

\* The request handled a parsed reply with a Note or Information and no
\* error message.
ThrottleSignalled(r) == r.outcome \in {"information", "note", "ratelimit"}

\* C6 as stated: a reply with a Note or Information and no error message,
\* handled when no value is stored for the key, is answered with status error
\* and HTTP 503, and the limiter reports limited right after the request has
\* ended.
C6_ThrottleWithoutCache ==
  \A r \in BagToSet(req) :
    (/\ Ended(r)
     /\ ThrottleSignalled(r)
     /\ r.post.entry = null)
    => /\ r.resp.http = 503
       /\ r.resp.body.status = "error"
       /\ isRateLimited(r.post.until, r.post.at).ret

\* C6 amended: such a request is answered with status error and HTTP 503 and
\* leaves a deadline in force that is not earlier than the instant at which
\* it marked or checked the limiter; the limiter reports limited right after
\* the request has ended in the inline-Cache handler, and in the KV-backed
\* handler whenever that deadline has not passed by then.
C6_ThrottleLimitsUntilDeadline ==
  \A r \in BagToSet(req) :
    (/\ Ended(r)
     /\ ThrottleSignalled(r)
     /\ r.post.entry = null)
    => /\ r.resp.http = 503
       /\ r.resp.body.status = "error"
       /\ r.mark.after # NoDeadline
       /\ r.mark.at <= r.mark.after
       /\ (variant = "inline" \/ r.post.at <= r.mark.after)
            => isRateLimited(r.post.until, r.post.at).ret

\* A throttle reply handled by the KV-backed handler with nothing stored,
\* while a deadline recorded by another request was in force: answered 503
\* at a later instant, with the limiter still reporting limited.
C6_Witness ==
  \E r \in BagToSet(req) :
    /\ variant = "kv"
    /\ Ended(r)
    /\ ThrottleSignalled(r)
    /\ r.post.entry = null
    /\ ~r.mark.called
    /\ r.mark.at < r.post.at
    /\ r.resp.http = 503
    /\ isRateLimited(r.post.until, r.post.at).ret

\* C7: when setRateLimited runs while a deadline is recorded and not yet
\* passed, the deadline afterwards is not earlier than the one before; this
\* holds for the next-UTC-midnight policy of the inline-Cache handler and for
\* the set-only-if-not-limited policy of the KV-backed handler.
C7_DeadlineNeverEarlier ==
  \A r \in BagToSet(req) :
    (/\ r.mark.called
     /\ r.mark.before # NoDeadline
     /\ r.mark.at <= r.mark.before)
    => r.mark.after >= r.mark.before

\* A throttle signal handled by the inline-Cache handler while the deadline
\* recorded by another request is still ahead.
C7_Witness ==
  \E r \in BagToSet(req) :
    /\ r.mark.called
    /\ r.mark.before # NoDeadline
    /\ r.mark.at < r.mark.before
    /\ r.mark.after = r.mark.before

\* C8: once a quote fetched from upstream is stored, a request that arrives
\* before its TTL has elapsed returns the stored result unchanged and makes
\* no upstream call.
C8_HitWithinTtl ==
  \A r \in BagToSet(req) :
    /\ ~r.fetchFresh
    /\ (/\ Ended(r)
        /\ WithinTtl(r.pre.stored, r.pre.at))
       => /\ r.resp = Respond(200, r.pre.stored.value)
          /\ r.calls = 0

\* A request answered from the store at a later instant than the set.
C8_Witness ==
  \E r \in BagToSet(req) :
    /\ Ended(r)
    /\ WithinTtl(r.pre.stored, r.pre.at)
    /\ r.pre.at > r.pre.stored.at
    /\ r.resp.body.price = "123.46"
    /\ r.calls = 0

\* C9: a parsed reply without error message or throttle field whose quote is
\* missing or empty, or has an empty symbol or a non-numeric price, is
\* answered with status error and HTTP 503, and nothing is stored.
C9_MalformedIs503 ==
  \A r \in BagToSet(req) :
    (/\ Ended(r)
     /\ r.reply.transport = "ok"
     /\ DesignOutcome(r.reply) = "Malformed")
    => /\ r.resp # null
       /\ r.resp.http = 503
       /\ r.resp.body.status = "error"
       /\ r.post.entry = r.atReply.entry
       /\ cache[CACHE_KEY] = r.atReply.entry

\* A reply whose quote has a symbol and a non-numeric price.
C9_Witness ==
  \E r \in BagToSet(req) :
    /\ Ended(r)
    /\ r.reply.transport = "ok"
    /\ DesignOutcome(r.reply) = "Malformed"
    /\ r.reply.quote.symbol = STOCK_SYMBOL
    /\ r.reply.quote.price = "abc"
    /\ r.resp.http = 503

\* C10: the outcome of a parsed reply is UpstreamError if it has an error
\* message, else RateLimited if it has a Note or Information, else Malformed
\* or Success by validation; an error message together with a throttle field
\* leaves the deadline unchanged, and a throttle field together with a valid
\* quote stores nothing.
C10_ClassificationOrder ==
  \A r \in BagToSet(req) :
    (Ended(r) /\ r.reply.transport = "ok")
    => /\ BranchTaken(r) = DesignOutcome(r.reply)
       /\ (r.reply.errorMessage /\ HasThrottle(r.reply))
            => /\ r.post.until = r.atReply.until
               /\ ~r.mark.called
       /\ (HasThrottle(r.reply) /\ WellFormedQuote(r.reply))
            => r.post.entry = r.atReply.entry

\* A reply with an error message, a Note and a valid quote, handled while a
\* deadline is absent.
C10_Witness ==
  \E r \in BagToSet(req) :
    /\ Ended(r)
    /\ r.reply.transport = "ok"
    /\ r.reply.errorMessage
    /\ r.reply.note
    /\ WellFormedQuote(r.reply)
    /\ r.via = "error"
    /\ r.post.until = NoDeadline

\* C11: a body with status success is sent with HTTP 200; a body with status
\* error is sent with HTTP 500 exactly when the request found the API key
\* missing and with HTTP 503 otherwise; no error body is sent with HTTP 200.
C11_StatusCodes ==
  \A r \in BagToSet(req) :
    Ended(r) =>
      /\ r.resp.body.status \in {"success", "error"}
      /\ r.resp.body.status = "success" => r.resp.http = 200
      /\ r.resp.body.status = "error"
           => r.resp.http = IF r.via = "nokey" THEN 500 ELSE 503
      /\ r.via = "nokey" => r.resp.body.status = "error"

\* A rejected fetch with nothing stored, answered from the catch block.
C11_Witness ==
  \E r \in BagToSet(req) :
    /\ Ended(r)
    /\ r.via = "catch"
    /\ r.resp.body.status = "error"
    /\ r.resp.http = 503

\* C12 as stated: a request handled while the API key is missing returns
\* 'API key not configured' with HTTP 500 and makes no upstream call,
\* whatever the store holds and whatever the limiter says.
C12_MissingKeyAlways500 ==
  \A r \in BagToSet(req) :
    (Ended(r) /\ r.calls = 0 /\ ~apiKey)
    => r.resp = Respond(500, ErrorBody("API key not configured"))

\* No request is put in flight at its fetch by this step unless the API key
\* is set.
FetchNeedsKey ==
  \A r \in BagToSet(req') :
    (r.pc = "fetch" /\ CopiesIn(r, req') > CopiesIn(r, req)) => apiKey

\* C12 amended: a request that reaches the credential test while the API key
\* is missing returns 'API key not configured' with HTTP 500 and makes no
\* upstream call; the test is reached only after the cache read found no
\* fresh value and the rate-limit gate found the limiter inactive (and, in
\* the KV-backed handler, no stale value exists), so a request handled while
\* the key is missing is otherwise answered from the cache or by the gate.
C12_MissingKeyAtFetch ==
  /\ [](\A r \in BagToSet(req) :
          /\ (Ended(r) /\ r.via = "nokey")
               => /\ r.resp = Respond(500, ErrorBody("API key not configured"))
                  /\ r.calls = 0
                  /\ ~apiKey
          /\ (Ended(r) /\ r.calls = 0 /\ ~apiKey)
               => r.via \in {"nokey", "hit", "gate", "stale"})
  /\ [][FetchNeedsKey]_vars

\* A request of the inline-Cache handler that found the key missing after an
\* expired quote was evicted by its cache read: answered 500, not stale.
C12_Witness ==
  \E r \in BagToSet(req) :
    /\ Ended(r)
    /\ r.via = "nokey"
    /\ r.pre.stored # null
    /\ r.resp.http = 500
    /\ ~apiKey

\* C13: every upstream fetch is preceded, within the same request, by a
\* cache.get of the key that returned absent or by a rate-limit check that
\* returned not limited.
C13_GateBeforeFetch ==
  \A r \in BagToSet(req) :
    r.calls > 0 =>
      \/ "store absent" \in r.gates
      \/ "not limited" \in r.gates

\* A request of the 12-second handler, which has no rate-limit flag, in
\* flight at its fetch after its cache read found an expired entry.
C13_Witness ==
  \E r \in BagToSet(req) :
    /\ variant = "plain"
    /\ r.pc = "fetch"
    /\ r.gates = {"store absent"}
    /\ lastStored[CACHE_KEY] # null
    /\ lastStored[CACHE_KEY].gotExpired

\* The TTL the deployed handler passes to cache.set.
ConfiguredTtl ==
  CASE variant = "inline" -> CACHE_TTL
    [] variant = "kv" -> KV_CACHE_TTL
    [] variant = "plain" -> PLAIN_CACHE_TTL

\* C14: every entry of the Store has expiresAt = time of the set that
\* installed it + the configured TTL, and the configured TTL is positive, so
\* the expiry was strictly later than the time of insertion.
C14_ExpiryIsInsertionPlusTtl ==
  \A k \in Keys :
    cache[k] # null =>
      /\ lastStored[k] # null
      /\ lastStored[k].ttl = ConfiguredTtl
      /\ lastStored[k].ttl > 0
      /\ cache[k].value = lastStored[k].value
      /\ cache[k].expiresAt = lastStored[k].at + (lastStored[k].ttl * 1000)
      /\ cache[k].expiresAt > lastStored[k].at

\* An entry installed by the inline-Cache handler after the clock had moved,
\* still in the Store at a later instant.
C14_Witness ==
  /\ variant = "inline"
  /\ cache[CACHE_KEY] # null
  /\ lastStored[CACHE_KEY].at > 0
  /\ now > lastStored[CACHE_KEY].at
  /\ cache[CACHE_KEY].expiresAt = lastStored[CACHE_KEY].at + 300000

\* C15: a request issues at most one upstream fetch; once its reply has been
\* classified, whatever the outcome, it does not return to the fetch.
C15_AtMostOneFetch ==
  \A r \in BagToSet(req) :
    /\ r.calls <= 1
    /\ r.pc = "fetch" => (r.calls = 1 /\ r.outcome = "none")
    /\ r.outcome # "none" => (r.calls = 1 /\ r.pc \in {"rlChecked", "rlSet", "done"})

\* A request whose fetch threw, answered 503 after its single attempt.
C15_Witness ==
  \E r \in BagToSet(req) :
    /\ Ended(r)
    /\ r.outcome = "catch"
    /\ r.calls = 1
    /\ r.resp.http = 503

\* The fields of a QuoteResult the design requires.
ResultFields == {"status", "symbol", "price", "change", "timestamp", "lastRefreshed"}

\* A success body whose fields all come from one result, built from one
\* quote at one instant.
CompleteResult(body) ==
  /\ ResultFields \subseteq DOMAIN body
  /\ body.status = "success"
  /\ \E q \in QuoteObjects :
       LET built == FormatResult(q, body.timestamp[2]) IN
       \A f \in DOMAIN built : body[f] = built[f]

ErrorResult(body) ==
  /\ {"status", "message"} \subseteq DOMAIN body
  /\ body.status = "error"
  /\ body.message # ""

\* The next step of a request in flight can be taken.
CanProceed(r) ==
  CASE r.pc = "fetch" ->
         \A reply \in Replies :
           ENABLED (\/ InlineReply(r, reply)
                    \/ KVReply(r, reply)
                    \/ PlainReply(r, reply))
    [] r.pc = "gate" -> ENABLED KVAfterGate(r)
    [] r.pc = "gotCached" -> ENABLED KVAfterGet(r)
    [] r.pc = "gotStale" -> ENABLED KVFetch(r)
    [] r.pc = "rlChecked" -> ENABLED KVRlChecked(r)
    [] r.pc = "rlSet" -> ENABLED KVRlSet(r)
    [] OTHER -> FALSE

\* C16: a request that has ended has one response, which is a complete
\* success result or an error result with a message; a request in flight
\* can always take its next step, for every upstream reply including a
\* rejected fetch and an unparsable body, so none ends without a response.
C16_EveryPathResponds ==
  \A r \in BagToSet(req) :
    IF Ended(r)
    THEN /\ r.resp # null
         /\ r.resp.http \in {200, 500, 503}
         /\ CompleteResult(r.resp.body) \/ ErrorResult(r.resp.body)
    ELSE CanProceed(r)

\* A rejected fetch answered by the catch block of the KV-backed handler
\* with the stored quote.
C16_Witness ==
  \E r \in BagToSet(req) :
    /\ variant = "kv"
    /\ Ended(r)
    /\ r.via = "catch"
    /\ r.resp.http = 200
    /\ CompleteResult(r.resp.body)

C18_LimitedIffBeforeDeadline ==
  last.op = "isRateLimited" =>
    /\ last.ret.limited <=> (last.ret.before # NoDeadline /\ last.at < last.ret.before)
    /\ last.ret.limited => rateLimitUntil = last.ret.before
    /\ (~last.ret.limited) => rateLimitUntil = NoDeadline

\* C18 amended: isRateLimited returns true exactly when a deadline is
\* recorded and the current time is not after it, the instant of the
\* deadline included; a true result leaves the deadline as it was, a false
\* result leaves no deadline recorded.
C18_LimitedIffNotAfterDeadline ==
  last.op = "isRateLimited" =>
    /\ last.ret.limited <=> (last.ret.before # NoDeadline /\ last.at <= last.ret.before)
    /\ last.ret.limited => rateLimitUntil = last.ret.before
    /\ (~last.ret.limited) => rateLimitUntil = NoDeadline

\* isRateLimited called at the very instant of the recorded deadline:
\* it reports limited and keeps the deadline.
C18_Witness ==
  /\ last.op = "isRateLimited"
  /\ last.ret.before # NoDeadline
  /\ last.at = last.ret.before
  /\ last.ret.limited
  /\ rateLimitUntil = last.ret.before

\* The admin request has answered that the flag is cleared.
ResetDone == admin.pc = "done" /\ admin.resp = Cleared

SameReplyBefore(r) ==
  /\ Ended(r)
  /\ r.outcome = "success"
  /\ r.atReply.stored # null
  /\ r.atReply.stored.at < r.atReply.at
  /\ r.atReply.stored.value = FormatResult(r.reply.quote, r.atReply.stored.at)

\* C21: when two requests at different times receive the same successful
\* upstream reply and store their results under the same key, the second
\* stored result equals the first in every field, and the Store holds one
\* entry for the key.
C21_SameReplySameResult ==
  \A r \in BagToSet(req) :
    SameReplyBefore(r) =>
      /\ r.post.entry # null
      /\ r.post.entry.value = r.atReply.stored.value
      /\ cache[CACHE_KEY] = r.post.entry

\* C22: the response body does not depend on the value of the credential:
\* the same upstream, asked under two credentials it may write into its
\* text, gets the same body from the handler.
C22_BodyIndependentOfKey ==
  echo.pc = "done" => echo.bodies[1] = echo.bodies[2]

\* The two-decimal-place renderings of NumericStrings.
TwoDecimalStrings == {"123.45", "123.46", "1.23", "-0.50"}

\* Request r handled a parsed reply without error message or throttle field
\* whose quote has a non-empty symbol and a numeric price.
HandledWellFormed(r) ==
  /\ Ended(r)
  /\ r.reply.transport = "ok"
  /\ DesignOutcome(r.reply) = "Success"

\* C23: a quote with a non-empty symbol and a numeric price is a Success
\* whether or not change, changePercent and lastTradingDay are present; in
\* the result price and change are two-decimal-place numeric strings,
\* changePercent and lastTradingDay are the upstream fields verbatim, and an
\* absent change is empty or undefined, not a non-numeric string.
C23_OptionalFieldsPropagate ==
  \A r \in BagToSet(req) :
    HandledWellFormed(r) =>
      /\ r.via = "success"
      /\ r.resp.body.price \in TwoDecimalStrings
      /\ r.resp.body.change \in
           (IF r.reply.quote.change = undefined THEN {undefined, ""}
            ELSE TwoDecimalStrings)
      /\ r.resp.body.changePercent = r.reply.quote.changePercent
      /\ r.resp.body.lastTradingDay = r.reply.quote.lastTradingDay

\* Request r of the 12-second handler handled a reply with a rate-limit
\* Note after a quote had been stored for the key.
NoteAfterStored(r) ==
  /\ variant = "plain"
  /\ Ended(r)
  /\ r.outcome = "note"
  /\ r.atReply.stored # null

\* C24: in the 12-second handler a reply with a rate-limit Note, after an
\* earlier request stored a quote for the key (expired or not), is answered
\* with that quote; the error is returned only when no quote was ever
\* stored.
C24_NoteServesStoredQuote ==
  \A r \in BagToSet(req) :
    NoteAfterStored(r) =>
      /\ r.resp.http = 200
      /\ r.resp.body = r.atReply.stored.value

\* Request r of the 12-second handler has issued its upstream call.
PlainCalled(r) == variant = "plain" /\ r.calls = 1

\* Two requests present together: two records, or one record held twice.
Together(r1, r2) == r1 # r2 \/ req[r1] > 1

LastWritten(k) ==
  [value |-> lastStored[k].value, expiresAt |-> ExpiryOf(lastStored[k])]

\* Request r was answered with what it read from the Store.
ServedFromStore(r) ==
  /\ Ended(r)
  /\ r.via \in {"hit", "gate", "information", "note", "catch"}
  /\ r.resp.http = 200

\* C26: under every interleaving of requests that fetch and write the same
\* key, the entry of the key is absent or is the whole {value, expiresAt}
\* pair written by the set that executed last, and a request answered
\* from the Store gets the value of that one write, not a mixture.
C26_EntryIsOneWholeWrite ==
  /\ cache[CACHE_KEY] # null =>
       /\ lastStored[CACHE_KEY] # null
       /\ cache[CACHE_KEY] = LastWritten(CACHE_KEY)
       /\ CompleteResult(cache[CACHE_KEY].value)
  /\ \A r \in BagToSet(req) :
       ServedFromStore(r) =>
         /\ r.post.entry # null
         /\ r.resp.body = r.post.entry.value
         /\ CompleteResult(r.resp.body)

\* A request that missed the cache, found at its reply an unexpired entry
\* written meanwhile by another request, and replaced it by its own result.
C26_Witness ==
  \E r \in BagToSet(req) :
    /\ Ended(r)
    /\ r.via = "success"
    /\ r.atReply.entry # null
    /\ r.atReply.at < r.atReply.entry.expiresAt
    /\ r.atReply.entry.value # r.resp.body
    /\ cache[CACHE_KEY] = [value |-> r.resp.body,
                           expiresAt |-> r.atReply.at + (CACHE_TTL * 1000)]

\* element.style.display shows the element
Visible(display) == display # "none"

\* C27: while the polling script runs, the container and the error element
\* are never both visible; the container is hidden until the first poll
\* that yields status success; and after each completed poll the container
\* is visible exactly when that poll yielded a status-success body with an
\* OK HTTP status.
C27_ContainerFollowsLastPoll ==
  ui.pc = "polling" =>
    /\ ~(Visible(ui.container) /\ Visible(ui.error))
    /\ (~ui.everSuccess) => ~Visible(ui.container)
    /\ ui.lastPoll # null =>
         (Visible(ui.container) <=> (ui.lastPoll.ok /\ ui.lastPoll.success))

\* The container is hidden again: an earlier poll yielded success, the last
\* one to complete did not, while another poll is still in flight.
C27_Witness ==
  /\ ui.pc = "polling"
  /\ ui.everSuccess
  /\ ui.lastPoll # null
  /\ ~ui.lastPoll.success
  /\ ~Visible(ui.container)
  /\ Visible(ui.error)
  /\ ui.atFetch + ui.atJson > 0

\* A step of the KV-backed handler replaces a recorded deadline by another.
Rewritten ==
  /\ variant = "kv"
  /\ rateLimitUntil # NoDeadline
  /\ rateLimitUntil' # NoDeadline
  /\ rateLimitUntil' # rateLimitUntil

\* A step clears a deadline that has passed.
ClearedWhenPassed ==
  /\ rateLimitUntil # NoDeadline
  /\ rateLimitUntil' = NoDeadline
  /\ now > rateLimitUntil

JustMarked == last.op = "setRateLimited"

\* C29: setRateLimited executed at t records the first UTC midnight
\* strictly after t: a whole multiple of 24 hours, greater than t and at
\* most t + 24h, exactly t + 24h when t is a UTC midnight; isRateLimited at
\* the same instant returns true.
C29_DeadlineIsNextMidnight ==
  JustMarked =>
    /\ rateLimitUntil # NoDeadline
    /\ rateLimitUntil % DayMs = 0
    /\ rateLimitUntil > last.at
    /\ rateLimitUntil <= last.at + DayMs
    /\ (last.at % DayMs = 0) => rateLimitUntil = last.at + DayMs
    /\ isRateLimited(rateLimitUntil, last.at).ret
    /\ isRateLimited(rateLimitUntil, last.at).until = rateLimitUntil

\* setRateLimited called exactly at a UTC midnight after the epoch.
C29_Witness ==
  /\ JustMarked
  /\ last.at > 0
  /\ last.at % DayMs = 0
  /\ rateLimitUntil = last.at + DayMs

\* C30: in the KV-backed handler a request whose getStale at the cache
\* check returned a value issues no upstream call and is answered with the
\* fresh or the stale value; every upstream call is made by a request whose
\* get and getStale both returned nothing.
C30_StaleSkipsUpstream ==
  \A r \in BagToSet(req) :
    variant = "kv" =>
      /\ "stale present" \in r.gates =>
           /\ r.calls = 0
           /\ Ended(r)
           /\ r.via \in {"hit", "stale"}
           /\ r.resp.http = 200
           /\ r.resp.body.status = "success"
      /\ r.calls > 0 => {"store absent", "stale absent"} \subseteq r.gates

\* A request whose get found nothing and whose getStale, after another
\* request had stored a quote, returned it: answered with the stale value
\* without a call.
C30_Witness ==
  \E r \in BagToSet(req) :
    /\ variant = "kv"
    /\ Ended(r)
    /\ r.via = "stale"
    /\ r.gates = {"not limited", "store absent", "stale present"}
    /\ r.calls = 0
    /\ r.resp.body.stale

\* The fields of a stored result and the annotations of a degraded answer.
QuoteFields ==
  {"symbol", "price", "change", "changePercent", "lastTradingDay",
   "timestamp", "lastRefreshed"}

Annotations == {"rateLimited", "stale", "error", "message"}

\* Request r of the KV-backed handler was answered from a stale entry.
ServedStale(r) ==
  /\ variant = "kv"
  /\ Ended(r)
  /\ r.via \in {"gate", "stale", "ratelimit", "catch"}
  /\ r.stale # null

\* C31: in the KV-backed handler every response served from a stale entry
\* has status success and HTTP 200 and carries the quote fields of the
\* stored entry; the annotations are added to the response only: the stored
\* entry is unchanged and a value read from the Store carries none.
C31_StaleAnswerKeepsEntry ==
  /\ \A r \in BagToSet(req) :
       ServedStale(r) =>
         /\ r.resp.http = 200
         /\ r.resp.body.status = "success"
         /\ r.post.entry # null
         /\ r.stale = r.post.entry.value
         /\ \A f \in QuoteFields : r.resp.body[f] = r.post.entry.value[f]
         /\ cache[CACHE_KEY] = r.post.entry
  /\ variant = "kv" =>
       /\ cache[CACHE_KEY] # null =>
            DOMAIN cache[CACHE_KEY].value \cap Annotations = {}
       /\ \A r \in BagToSet(req) :
            (Ended(r) /\ r.via = "hit") =>
              DOMAIN r.resp.body \cap Annotations = {}

\* A request stopped by the rate-limit gate and answered with the stored
\* quote after its TTL had passed, annotated as rate limited.
C31_Witness ==
  \E r \in BagToSet(req) :
    /\ ServedStale(r)
    /\ r.via = "gate"
    /\ r.resp.body.rateLimited
    /\ r.post.at > r.post.entry.expiresAt
    /\ "rateLimited" \notin DOMAIN cache[CACHE_KEY].value

\* A deadline is recorded, no request is in flight, and the clock can still
\* pass the deadline.
Blocked ==
  /\ rateLimitUntil # NoDeadline
  /\ Settle(req) = EmptyBag
  /\ CanElapse

\* The limiter is inactive and a request is at its upstream fetch.
FetchingAgain ==
  /\ rateLimitUntil = NoDeadline
  /\ \E r \in BagToSet(req) : r.pc = "fetch" /\ r.calls = 1

\* C32: a recorded deadline is cleared only by a limiter check made after
\* it has passed; and when time advances and the client keeps polling, a
\* recorded deadline is followed by a state in which the limiter is
\* inactive and a request that found no fresh cached value is at its
\* upstream fetch.
C32_BlockedEventuallyFetches ==
  /\ [][(rateLimitUntil # NoDeadline /\ rateLimitUntil' = NoDeadline)
          => now > rateLimitUntil]_vars
  /\ (Blocked ~> FetchingAgain)

\* The clock has passed a recorded deadline, no limiter check has been made
\* since, and no request is in flight.
C32_Witness ==
  /\ rateLimitUntil # NoDeadline
  /\ now > rateLimitUntil
  /\ now = Horizon + 1
  /\ ticks = MaxTicks + 1
  /\ Settle(req) = EmptyBag
  /\ cache[CACHE_KEY] # null

\* A quote is stored and its TTL has elapsed.
EntryExpired == cache[CACHE_KEY] # null /\ now > cache[CACHE_KEY].expiresAt

\* The stored entry is within its TTL.
EntryFresh == cache[CACHE_KEY] # null /\ now <= cache[CACHE_KEY].expiresAt

StoredQuote(value) ==
  /\ value.status = "success"
  /\ value.symbol \notin {undefined, ""}
  /\ value.price \in TwoDecimalStrings

\* C34: every value held in the Store has status success, a non-empty
\* symbol and a numeric two-decimal price.
C34_StoreHoldsOnlyQuotes ==
  \A k \in Keys : cache[k] # null => StoredQuote(cache[k].value)

\* A request has just ended on one of the given paths.
EndedVia(paths) ==
  \E r \in BagToSet(req) : r.pc = "done" /\ r.via \in paths

\* The step removes the expired entry of key k, as get does.
LazyEviction(k) ==
  /\ cache[k] # null
  /\ now > cache[k].expiresAt
  /\ cache'[k] = null

\* The step clears a passed deadline, as the limiter check does.
LazyClearing ==
  /\ rateLimitUntil # NoDeadline
  /\ now > rateLimitUntil
  /\ rateLimitUntil' = NoDeadline

====
